---- MODULE Spec2Model ----
(***************************************************************************)
(* Model of homework.py: a bot that polls the homework-review API, derives *)
(* a status message from the first homework of the answer and forwards it  *)
(* to a Telegram chat when it differs from the last one it forwarded.      *)
(*                                                                         *)
(* Python values are tagged records: None, Str(s), Int(n), List(seq),      *)
(* Dict(f).  The Russian texts of the source are rendered in ASCII; each   *)
(* distinct text of the source is a distinct text here.                    *)
(***************************************************************************)
EXTENDS Naturals, Sequences, FiniteSets, TLC

VARIABLES
    pc,           \* position of main(): "start", "fetch", "sleep", "exited", "crashed"
    env,          \* the environment read at import: token name -> value
    bot,          \* main's local bot
    timestamp,    \* main's local timestamp
    last_status,  \* main's local last_status
    exit_status,  \* the argument of sys.exit, once called
    slept,        \* the argument of the latest time.sleep
    log,          \* the log records written by the latest step
    reply,        \* what the HTTP exchange of the latest pass did
    cycle,        \* what the latest pass of the loop body did
    prev          \* summary of the pass before it

vars == <<pc, env, bot, timestamp, last_status, exit_status, slept, log, reply,
          cycle, prev>>

----------------------------------------------------------------------------
(* Bounds of the model *)

MaxHomeworks == 2
MaxDate == 2

----------------------------------------------------------------------------
(* Python values *)

None == [t |-> "None"]
Str(s) == [t |-> "str", v |-> s]
Int(n) == [t |-> "int", v |-> n]
List(s) == [t |-> "list", v |-> s]
Dict(f) == [t |-> "dict", v |-> f]

\* dict.get(key): the value, or None when the key is absent
Get(d, key) == IF key \in DOMAIN d.v THEN d.v[key] ELSE None

\* the truth value Python gives a value
Truthy(x) ==
    CASE x.t = "None" -> FALSE
      [] x.t = "str" -> x.v # ""
      [] x.t = "int" -> x.v # 0
      [] x.t = "list" -> x.v # <<>>
      [] OTHER -> DOMAIN x.v # {}

\* exceptions: a class and the message it was built with
NoExc == [type |-> "none", msg |-> ""]
Exc(type, msg) == [type |-> type, msg |-> msg]

\* str(error): a KeyError shows the repr of its argument, the others the text
StrOf(error) ==
    IF error.type = "KeyError" THEN "'" \o error.msg \o "'" ELSE error.msg

\* a log record
Rec(level, msg) == [level |-> level, msg |-> msg]

----------------------------------------------------------------------------
(* Module constants *)

RETRY_PERIOD == 600
ENDPOINT == "https://practicum.yandex.ru/api/user_api/homework_statuses/"
HTTP_OK == 200

HOMEWORK_VERDICTS ==
    [approved |-> "Work checked: the reviewer liked everything. Hooray!",
     reviewing |-> "Work taken for review by the reviewer.",
     rejected |-> "Work checked: the reviewer has remarks."]

\* ENV_TOKENS of check_tokens, in declaration order
TokenNames == <<"PRACTICUM_TOKEN", "TELEGRAM_TOKEN", "TELEGRAM_CHAT_ID">>

----------------------------------------------------------------------------
(* check_tokens *)

RECURSIVE MissingFrom(_, _)
MissingFrom(e, i) ==
    IF i > Len(TokenNames) THEN <<>>
    ELSE (IF e[TokenNames[i]] = None THEN <<TokenNames[i]>> ELSE <<>>)
         \o MissingFrom(e, i + 1)

RECURSIVE CheckedLog(_, _)
CheckedLog(e, i) ==
    IF i > Len(TokenNames) THEN <<>>
    ELSE (IF e[TokenNames[i]] = None THEN <<>>
          ELSE <<Rec("INFO", "Token " \o TokenNames[i] \o " checked.")>>)
         \o CheckedLog(e, i + 1)

\* checks PRACTICUM_TOKEN alone
check_tokens_first(e) ==
    [value |-> IF e[TokenNames[1]] = None THEN <<TokenNames[1]>> ELSE <<>>,
     log |-> IF e[TokenNames[1]] = None THEN <<>>
             ELSE <<Rec("INFO", "Token " \o TokenNames[1] \o " checked.")>>]

\* the names collected from the last entry of ENV_TOKENS to the first
check_tokens_reversed(e) ==
    LET missing == MissingFrom(e, 1)
    IN  [value |-> [i \in 1..Len(missing) |-> missing[Len(missing) + 1 - i]],
         log |-> CheckedLog(e, 1)]

check_tokens(e) == [value |-> MissingFrom(e, 1), log |-> CheckedLog(e, 1)]

----------------------------------------------------------------------------
(* send_message: client is what bot.send_message does, "ok" or "fail" *)

send_message_propagates(client, message) ==
    [raised |-> IF client = "ok" THEN NoExc
                ELSE Exc("TelegramError", "delivery failed"),
     call |-> [text |-> message, delivered |-> client = "ok"],
     log |-> <<Rec("DEBUG", "Sending message to Telegram: " \o message)>>
             \o (IF client = "ok"
                 THEN <<Rec("DEBUG", "Message sent to Telegram: " \o message)>>
                 ELSE <<>>)]

send_message(client, message) ==
    [raised |-> NoExc,
     call |-> [text |-> message, delivered |-> client = "ok"],
     log |-> <<Rec("DEBUG", "Sending message to Telegram: " \o message)>>
             \o (IF client = "ok"
                 THEN <<Rec("DEBUG", "Message sent to Telegram: " \o message)>>
                 ELSE <<Rec("ERROR", "Failure sending message to Telegram: "
                                     \o "delivery failed")>>)]

----------------------------------------------------------------------------
(* get_api_answer: exchange is what the HTTP exchange does.                *)
(*   [kind |-> "neterr"]                       requests.get raises          *)
(*   [kind |-> "http", code, json, decode]     an exchange completed; json  *)
(*      is the parsed body, or None with decode the class response.json()  *)
(*      raises: "RequestException" (requests.JSONDecodeError) or           *)
(*      "ValueError" (json.JSONDecodeError of older requests)              *)

RequestError == Exc("Exception", "Error requesting the API: " \o ENDPOINT \o ".")

get_api_answer(ts, exchange) ==
    LET payload == [from_date |-> ts]
        out(raised, value) ==
            [raised |-> raised, value |-> value, payload |-> payload,
             log |-> <<Rec("DEBUG", "Sending request to API: " \o ENDPOINT)>>]
    IN  IF exchange.kind = "neterr" THEN out(RequestError, None)
        ELSE IF exchange.code >= 400 THEN out(RequestError, None)
        ELSE IF exchange.decode = "RequestException" THEN out(RequestError, None)
        ELSE IF exchange.decode = "ValueError"
             THEN out(Exc("ValueError", "Expecting value"), None)
        ELSE IF exchange.code # HTTP_OK
             THEN out(Exc("Exception", "HTTP status error: " \o ToString(exchange.code)),
                      None)
        ELSE out(NoExc, exchange.json)

----------------------------------------------------------------------------
(* check_response *)

\* without the check of line 93
check_response_no_date(response) ==
    IF response.t # "dict"
    THEN Exc("TypeError", "The API answer must be a dict")
    ELSE IF "homeworks" \notin DOMAIN response.v
    THEN Exc("KeyError", "Key \"homeworks\" is absent from the API answer")
    ELSE IF response.v["homeworks"].t # "list"
    THEN Exc("TypeError", "The data under \"homeworks\" is not a list")
    ELSE NoExc

check_response(response) ==
    IF response.t # "dict"
    THEN Exc("TypeError", "The API answer must be a dict")
    ELSE IF "homeworks" \notin DOMAIN response.v
    THEN Exc("KeyError", "Key \"homeworks\" is absent from the API answer")
    ELSE IF response.v["homeworks"].t # "list"
    THEN Exc("TypeError", "The data under \"homeworks\" is not a list")
    ELSE IF "current_date" \notin DOMAIN response.v
    THEN Exc("KeyError", "Key \"current_date\" is absent from the API answer")
    ELSE NoExc

----------------------------------------------------------------------------
(* parse_status *)

MissingName == Exc("ValueError", "Key \"homework_name\" is absent from the API answer")
UnknownStatus(status) ==
    Exc("ValueError",
        "Undocumented homework status: \""
            \o (IF status.t = "None" THEN "None" ELSE status.v) \o "\"")

StatusText(homework_name, verdict) ==
    "Homework review status changed \"" \o homework_name \o "\". " \o verdict

parse_status_unchecked(homework) ==
    LET homework_name == Get(homework, "homework_name")
        status == Get(homework, "status")
    IN  IF ~Truthy(homework_name)
        THEN [raised |-> MissingName, value |-> None]
        ELSE IF status.t # "str" \/ status.v \notin DOMAIN HOMEWORK_VERDICTS
        THEN [raised |-> NoExc,
              value |-> Str(StatusText(homework_name.v, "None"))]
        ELSE [raised |-> NoExc,
              value |-> Str(StatusText(homework_name.v, HOMEWORK_VERDICTS[status.v]))]

parse_status(homework) ==
    LET homework_name == Get(homework, "homework_name")
        status == Get(homework, "status")
    IN  IF ~Truthy(homework_name)
        THEN [raised |-> MissingName, value |-> None]
        ELSE IF status.t # "str" \/ status.v \notin DOMAIN HOMEWORK_VERDICTS
        THEN [raised |-> UnknownStatus(status), value |-> None]
        ELSE [raised |-> NoExc,
              value |-> Str(StatusText(homework_name.v, HOMEWORK_VERDICTS[status.v]))]

----------------------------------------------------------------------------
(* main: the body of the while loop, lines 125-144.  client is what        *)
(* bot.send_message does in this pass.                                     *)

\* line 133
StatusChanged_always(status_message, last) == TRUE

StatusChanged(status_message, last) == status_message # last

\* what a pass reports, before anything happened in it
Pass(ts, last) ==
    [last_status |-> last, timestamp |-> ts, payload |-> [from_date |-> ts],
     parsed |-> <<>>, derived |-> None, calls |-> <<>>,
     failure |-> NoExc, parse_error |-> NoExc, escaped |-> NoExc, log |-> <<>>]

\* a send_message call as the pass records it: what says which message it carried
Call(sent, what) ==
    [text |-> sent.call.text, delivered |-> sent.call.delivered, what |-> what]

ParseErrorLog(parse_error) ==
    <<Rec("ERROR", "Error processing the homework status: " \o StrOf(parse_error))>>

\* lines 130-139: the first homework, inside the inner try
ProcessHomework_no_try(p, homework, client) ==
    LET parse == parse_status(homework)
        q == [p EXCEPT !.parsed = <<[homework |-> homework, result |-> parse]>>]
    IN  IF parse.raised # NoExc
        THEN [q EXCEPT !.escaped = parse.raised]
        ELSE IF ~StatusChanged(parse.value, p.last_status)
        THEN [q EXCEPT !.derived = parse.value]
        ELSE LET sent == send_message(client, parse.value.v)
             IN  [q EXCEPT !.derived = parse.value,
                           !.calls = <<Call(sent, "status")>>,
                           !.log = p.log \o sent.log
                                   \o <<Rec("INFO", "Status changed")>>,
                           !.last_status = parse.value]

ProcessHomework_forgets(p, homework, client) ==
    LET parse == parse_status(homework)
        q == [p EXCEPT !.parsed = <<[homework |-> homework, result |-> parse]>>]
    IN  IF parse.raised # NoExc
        THEN [q EXCEPT !.parse_error = parse.raised,
                       !.log = p.log \o ParseErrorLog(parse.raised)]
        ELSE IF ~StatusChanged(parse.value, p.last_status)
        THEN [q EXCEPT !.derived = parse.value]
        ELSE LET sent == send_message(client, parse.value.v)
             IN  [q EXCEPT !.derived = parse.value,
                           !.calls = <<Call(sent, "status")>>,
                           !.log = p.log \o sent.log
                                   \o <<Rec("INFO", "Status changed")>>]

\* last_status assigned only when the message was delivered
ProcessHomework_retries(p, homework, client) ==
    LET parse == parse_status(homework)
        q == [p EXCEPT !.parsed = <<[homework |-> homework, result |-> parse]>>]
    IN  IF parse.raised # NoExc
        THEN [q EXCEPT !.parse_error = parse.raised,
                       !.log = p.log \o ParseErrorLog(parse.raised)]
        ELSE IF ~StatusChanged(parse.value, p.last_status)
        THEN [q EXCEPT !.derived = parse.value]
        ELSE LET sent == send_message(client, parse.value.v)
             IN  [q EXCEPT !.derived = parse.value,
                           !.calls = <<Call(sent, "status")>>,
                           !.log = p.log \o sent.log
                                   \o <<Rec("INFO", "Status changed")>>,
                           !.last_status = IF sent.call.delivered
                                           THEN parse.value ELSE p.last_status]

ProcessHomework(p, homework, client) ==
    LET parse == parse_status(homework)
        q == [p EXCEPT !.parsed = <<[homework |-> homework, result |-> parse]>>]
    IN  IF parse.raised # NoExc
        THEN [q EXCEPT !.parse_error = parse.raised,
                       !.log = p.log \o ParseErrorLog(parse.raised)]
        ELSE IF ~StatusChanged(parse.value, p.last_status)
        THEN [q EXCEPT !.derived = parse.value]
        ELSE LET sent == send_message(client, parse.value.v)
                 r == [q EXCEPT !.derived = parse.value,
                                !.calls = <<Call(sent, "status")>>]
             IN  IF sent.raised # NoExc
                 THEN [r EXCEPT !.parse_error = sent.raised,
                                !.log = p.log \o sent.log
                                        \o ParseErrorLog(sent.raised)]
                 ELSE [r EXCEPT !.log = p.log \o sent.log
                                        \o <<Rec("INFO", "Status changed")>>,
                                !.last_status = parse.value]

\* lines 140-142: the outer except
Handle_silent(p, error, client) ==
    [p EXCEPT !.failure = error]

Handle_reraises(p, error, client) ==
    LET message == "Program failure: " \o StrOf(error)
        sent == send_message(client, message)
    IN  [p EXCEPT !.failure = error,
                  !.calls = p.calls \o <<Call(sent, "diagnostic")>>,
                  !.log = p.log \o sent.log,
                  !.escaped = error]

\* the diagnostic kept in last_status and sent only when it changes
Handle_remembers(p, error, client) ==
    LET message == "Program failure: " \o StrOf(error)
        sent == send_message(client, message)
    IN  IF Str(message) = p.last_status
        THEN [p EXCEPT !.failure = error]
        ELSE [p EXCEPT !.failure = error,
                       !.calls = p.calls \o <<Call(sent, "diagnostic")>>,
                       !.log = p.log \o sent.log,
                       !.last_status = Str(message),
                       !.escaped = sent.raised]

Handle(p, error, client) ==
    LET message == "Program failure: " \o StrOf(error)
        sent == send_message(client, message)
    IN  [p EXCEPT !.failure = error,
                  !.calls = p.calls \o <<Call(sent, "diagnostic")>>,
                  !.log = p.log \o sent.log,
                  !.escaped = sent.raised]

\* check_response called after the first homework was processed
TryBlock_validates_late(ts, last, exchange, client) ==
    LET api == get_api_answer(ts, exchange)
        p == [Pass(ts, last) EXCEPT !.log = api.log, !.payload = api.payload]
    IN  IF api.raised # NoExc THEN [p EXCEPT !.escaped = api.raised]
        ELSE LET homeworks == IF api.value.t = "dict"
                              THEN Get(api.value, "homeworks") ELSE None
                 q == IF homeworks.t = "list" /\ Truthy(homeworks)
                      THEN ProcessHomework(p, homeworks.v[1], client)
                      ELSE p
                 checked == check_response(api.value)
             IN  IF checked # NoExc THEN [q EXCEPT !.escaped = checked] ELSE q

\* lines 125-139: the try block; escaped is the exception that leaves it
TryBlock(ts, last, exchange, client) ==
    LET api == get_api_answer(ts, exchange)
        p == [Pass(ts, last) EXCEPT !.log = api.log, !.payload = api.payload]
    IN  IF api.raised # NoExc THEN [p EXCEPT !.escaped = api.raised]
        ELSE LET checked == check_response(api.value)
             IN  IF checked # NoExc THEN [p EXCEPT !.escaped = checked]
                 ELSE LET homeworks == Get(api.value, "homeworks")
                      IN  IF ~Truthy(homeworks) THEN p
                          ELSE ProcessHomework(p, homeworks.v[1], client)

\* lines 125-144: try, except, finally
LoopBody(ts, last, exchange, client) ==
    LET t == TryBlock(ts, last, exchange, client)
        h == IF t.escaped # NoExc
             THEN Handle([t EXCEPT !.escaped = NoExc], t.escaped, client)
             ELSE t
    IN  [h EXCEPT !.log = h.log \o <<Rec("INFO", "Program finished")>>]

----------------------------------------------------------------------------
(* What the environment can supply *)

Names == {"hw1"}
Statuses == {"approved", "reviewing", "rejected", "bogus"}

\* a homework dict; None for a key leaves the key out
Homework(name, status) ==
    Dict([k \in (IF name = None THEN {} ELSE {"homework_name"})
                \cup (IF status = None THEN {} ELSE {"status"})
          |-> IF k = "homework_name" THEN name ELSE status])

HomeworkRecords ==
    {Homework(n, s) : n \in {None, Str("")} \cup {Str(x) : x \in Names},
                      s \in {None} \cup {Str(x) : x \in Statuses}}

\* lists of several homeworks are drawn from one good and one bad record
SeveralRecords == {Homework(Str("hw2"), Str("reviewing")), Homework(Str("hw2"), Str("bogus"))}

RECURSIVE Several(_)
Several(n) ==
    IF n < 2 THEN {}
    ELSE Several(n - 1) \cup [1..n -> SeveralRecords]

HomeworkLists ==
    {<<>>} \cup {<<h>> : h \in HomeworkRecords} \cup Several(MaxHomeworks)

Dates == 1..MaxDate

Response(homeworks, current_date) ==
    Dict([homeworks |-> homeworks, current_date |-> current_date])

ValidBodies == {Response(List(l), Int(d)) : l \in HomeworkLists, d \in Dates}

InvalidBodies ==
    {List(<<>>),
     Dict([current_date |-> Int(1)]),
     Response(Str("none"), Int(1)),
     Dict([homeworks |-> List(<<>>)]),
     Dict([homeworks |-> List(<<Homework(Str("hw1"), Str("approved"))>>)])}

Http(code, json, decode) ==
    [kind |-> "http", code |-> code, json |-> json, decode |-> decode]

Replies ==
    {[kind |-> "neterr"]}
    \cup {Http(500, None, "none"), Http(404, None, "none")}
    \cup {Http(HTTP_OK, None, d) : d \in {"RequestException", "ValueError"}}
    \cup {Http(201, Response(List(<<>>), Int(1)), "none")}
    \cup {Http(HTTP_OK, b, "none") : b \in ValidBodies \cup InvalidBodies}

Clients == {"ok", "fail"}

----------------------------------------------------------------------------
(* State *)

NoCycle ==
    [ran |-> FALSE, repeated |-> FALSE,
     before_status |-> None, before_timestamp |-> None, out |-> Pass(None, None)]

RECURSIVE Texts(_)
Texts(calls) ==
    IF calls = <<>> THEN <<>> ELSE <<Head(calls).text>> \o Texts(Tail(calls))

\* what is kept of a pass once the next one has run
Summary(c) ==
    [ran |-> c.ran, before_status |-> c.before_status, derived |-> c.out.derived,
     sent |-> IF c.out.derived = None THEN <<>> ELSE Texts(c.out.calls),
     undelivered |-> /\ c.out.derived # None
                     /\ \E i \in 1..Len(c.out.calls) : ~c.out.calls[i].delivered,
     ncalls |-> Len(c.out.calls)]

Init ==
    /\ pc = "start"
    /\ env \in [{TokenNames[i] : i \in 1..Len(TokenNames)} -> {None, Str("token")}]
    /\ bot = None
    /\ timestamp = None
    /\ last_status = None
    /\ exit_status = None
    /\ slept = None
    /\ log = <<>>
    /\ reply = [kind |-> "none"]
    /\ cycle = NoCycle
    /\ prev = Summary(NoCycle)

RECURSIVE CriticalLog(_)
CriticalLog(missing_tokens) ==
    IF missing_tokens = <<>> THEN <<>>
    ELSE <<Rec("CRITICAL", "Environment variable is absent: \""
                           \o Head(missing_tokens) \o "\"")>>
         \o CriticalLog(Tail(missing_tokens))

\* main, lines 113-122; time is counted from the moment main reads the clock
Startup ==
    /\ pc = "start"
    /\ LET checked == check_tokens(env)
           missing_tokens == checked.value
           started == <<Rec("INFO", "Bot started")>> \o checked.log
       IN  IF missing_tokens # <<>>
           THEN /\ log' = started \o CriticalLog(missing_tokens)
                /\ exit_status' = [t |-> "exit", code |-> 1,
                                   stderr |-> "Error: tokens failed validation"]
                /\ pc' = "exited"
                /\ UNCHANGED <<bot, timestamp, last_status>>
           ELSE /\ timestamp' = Int(0)
                /\ bot' = [t |-> "Bot", token |-> env["TELEGRAM_TOKEN"]]
                /\ last_status' = None
                /\ log' = started
                /\ pc' = "fetch"
                /\ UNCHANGED exit_status
    /\ UNCHANGED <<env, slept, reply, cycle, prev>>

\* main, lines 125-144: one pass of the loop body
Cycle ==
    /\ pc = "fetch"
    /\ reply' \in Replies
    /\ \E out \in {LoopBody(timestamp, last_status, reply', client) :
                      client \in Clients} :
             /\ cycle' = [ran |-> TRUE,
                          repeated |-> cycle.ran /\ reply' = reply,
                          before_status |-> last_status,
                          before_timestamp |-> timestamp, out |-> out]
             /\ prev' = Summary(cycle)
             /\ last_status' = out.last_status
             /\ timestamp' = out.timestamp
             /\ log' = out.log
             /\ pc' = IF out.escaped # NoExc THEN "crashed" ELSE "sleep"
    /\ UNCHANGED <<env, bot, exit_status, slept>>

\* main, line 146
Sleep ==
    /\ pc = "sleep"
    /\ slept' = Int(RETRY_PERIOD)
    /\ pc' = "fetch"
    /\ UNCHANGED <<env, bot, timestamp, last_status, exit_status, log, reply,
                   cycle, prev>>

Next == Startup \/ Cycle \/ Sleep

Spec == Init /\ [][Next]_vars

\* main is one sequential thread: whenever it has a next statement, it runs it.
\* The last conjunct is WF_vars(Cycle) with ENABLED <<Cycle>>_vars written as
\* pc = "fetch": Replies is not empty and every pass changes pc, so a pass is
\* enabled exactly there.
FairSpec ==
    /\ Spec
    /\ WF_vars(Startup)
    /\ WF_vars(Sleep)
    /\ ([]<>(pc # "fetch") \/ []<><<Cycle>>_vars)

----------------------------------------------------------------------------
(* Vocabulary of the properties *)

Contains(s, sub) ==
    \E i \in 1..(Len(s) + 1 - Len(sub)) : SubSeq(s, i, i + Len(sub) - 1) = sub

Logged(records, level, msg) ==
    \E i \in 1..Len(records) : records[i] = Rec(level, msg)

Calls == cycle.out.calls
Derived == cycle.out.derived

\* the pass got an answer from get_api_answer and check_response accepted it
Validated ==
    /\ cycle.ran
    /\ get_api_answer(cycle.before_timestamp, reply).raised = NoExc
    /\ check_response(reply.json) = NoExc

\* the pass failed at the cycle level: get_api_answer or check_response raised
CycleFailed == cycle.ran /\ ~Validated

CycleError ==
    LET api == get_api_answer(cycle.before_timestamp, reply)
    IN  IF api.raised # NoExc THEN api.raised ELSE check_response(api.value)

Diagnostic(error) == "Program failure: " \o StrOf(error)

\* the required tokens the environment does not hold
Absent == {n \in DOMAIN env : env[n] = None}

----------------------------------------------------------------------------
(* C1: a status message is never sent in a pass where it equals the last   *)
(* notified message; when the same answer, whose record parses, comes in   *)
(* two consecutive passes starting with nothing notified yet, send_message *)
(* is called exactly once in the first pass and not at all in the second.  *)
C1_RepeatsSuppressed ==
    cycle.ran =>
      /\ \A i \in 1..Len(Calls) :
           Calls[i].what = "status" => Str(Calls[i].text) # cycle.before_status
      /\ (Derived # None /\ Derived = cycle.before_status) => Calls = <<>>
      /\ (cycle.repeated /\ Derived # None) => Calls = <<>>
      /\ (cycle.repeated /\ Derived # None /\ prev.before_status = None) =>
           /\ prev.ncalls = 1
           /\ prev.sent = <<Derived.v>>

C1_Witness ==
    /\ cycle.repeated
    /\ Derived # None
    /\ prev.before_status = None
    /\ prev.ncalls = 1
    /\ Calls = <<>>

(* C2: if a pass derives A, differing from the last notified message, and  *)
(* the next pass derives B # A, then each of the two passes calls          *)
(* send_message exactly once, with A in the first and B in the second, and *)
(* the last notified message is B afterwards.                              *)
C2_ChangeDetection ==
    (/\ cycle.ran /\ prev.ran
     /\ prev.derived # None /\ Derived # None /\ Derived # prev.derived
     /\ prev.before_status # prev.derived) =>
      /\ prev.ncalls = 1
      /\ prev.sent = <<prev.derived.v>>
      /\ Len(Calls) = 1
      /\ Calls[1].text = Derived.v /\ Calls[1].what = "status"
      /\ last_status = Derived

C2_Witness ==
    /\ cycle.ran /\ prev.ran
    /\ prev.derived # None /\ Derived # None /\ Derived # prev.derived
    /\ prev.before_status # prev.derived
    /\ prev.sent = <<prev.derived.v>>
    /\ Len(Calls) = 1
    /\ last_status = Derived

(* C2 as first stated, without the condition on the message notified       *)
(* before pass N: any two consecutive passes deriving A and then B # A     *)
(* each call send_message exactly once.                                    *)
C2_AnyDerivedIsSent ==
    (/\ cycle.ran /\ prev.ran
     /\ prev.derived # None /\ Derived # None /\ Derived # prev.derived) =>
      /\ prev.ncalls = 1
      /\ prev.sent = <<prev.derived.v>>
      /\ Len(Calls) = 1
      /\ Calls[1].text = Derived.v /\ Calls[1].what = "status"
      /\ last_status = Derived

(* C3: a pass in which get_api_answer or check_response raises calls       *)
(* send_message with the diagnostic of that error, and leaves last_status  *)
(* and timestamp as they were before the pass.                             *)
C3_FailedCycleKeepsState ==
    CycleFailed =>
      /\ cycle.out.failure = CycleError
      /\ Len(Calls) = 1
      /\ Calls[1].text = Diagnostic(CycleError)
      /\ Calls[1].what = "diagnostic"
      /\ last_status = cycle.before_status
      /\ timestamp = cycle.before_timestamp

C3_Witness ==
    /\ CycleFailed
    /\ cycle.before_status # None
    /\ reply.kind = "http" /\ reply.code = HTTP_OK
    /\ CycleError.type = "KeyError"
    /\ Len(Calls) = 1 /\ ~Calls[1].delivered
    /\ last_status = cycle.before_status

(* C4: once the loop has started no failure ends it: every pass, failing   *)
(* or not, reaches the sleep, and every sleep is followed by another       *)
(* fetch, so that a fetch is attempted infinitely often.                   *)
C4_LoopNeverStops ==
    /\ [](pc # "crashed")
    /\ (pc = "fetch") ~> (pc = "sleep")
    /\ (pc = "sleep") ~> (pc = "fetch")

C4_Witness ==
    /\ pc = "fetch"
    /\ slept = Int(RETRY_PERIOD)
    /\ prev.ran
    /\ CycleFailed
    /\ Len(Calls) = 1 /\ ~Calls[1].delivered

(* C5: after a pass whose answer was fetched and validated, timestamp      *)
(* equals the current_date of the answer.                                  *)
C5_CursorFollowsResponse ==
    Validated => timestamp = Get(reply.json, "current_date")

(* C6: a pass whose answer was validated parses every homework of the      *)
(* list, in list order, and logs one record-level error for each homework  *)
(* whose parsing fails.                                                    *)
C6_EveryRecordParsed ==
    Validated =>
      LET homeworks == Get(reply.json, "homeworks").v
          parsed == cycle.out.parsed
      IN  /\ Len(parsed) = Len(homeworks)
          /\ \A i \in 1..Len(homeworks) :
               /\ i <= Len(parsed)
               /\ parsed[i].homework = homeworks[i]
               /\ parse_status(homeworks[i]).raised # NoExc =>
                    Logged(cycle.out.log, "ERROR",
                           ParseErrorLog(parse_status(homeworks[i]).raised)[1].msg)

(* C7: when parse_status fails on the homework of a validated answer, the  *)
(* error is logged, send_message is not called, last_status is unchanged   *)
(* and the pass ends without entering the outer except.                    *)
C7_ParseFailureLoggedOnly ==
    (/\ Validated
     /\ Truthy(Get(reply.json, "homeworks"))
     /\ parse_status(Get(reply.json, "homeworks").v[1]).raised # NoExc) =>
      LET error == parse_status(Get(reply.json, "homeworks").v[1]).raised
      IN  /\ cycle.out.parse_error = error
          /\ Logged(cycle.out.log, "ERROR",
                    "Error processing the homework status: " \o error.msg)
          /\ Calls = <<>>
          /\ last_status = cycle.before_status
          /\ cycle.out.failure = NoExc
          /\ pc \in {"sleep", "fetch"}

C7_Witness ==
    /\ Validated
    /\ cycle.out.parse_error = UnknownStatus(Str("bogus"))
    /\ cycle.before_status # None
    /\ Calls = <<>>
    /\ pc = "sleep"

(* C8: send_message returns normally whatever bot.send_message does: a     *)
(* failed delivery is logged as an error, the pass goes on as after a      *)
(* delivery (a status message is stored in last_status, without the inner  *)
(* or the outer except being entered), and the loop does not crash.        *)
C8_SendMessageNeverRaises ==
    /\ pc # "crashed"
    /\ cycle.out.escaped = NoExc
    /\ \A i \in 1..Len(Calls) :
         /\ ~Calls[i].delivered =>
              Logged(cycle.out.log, "ERROR",
                     "Failure sending message to Telegram: delivery failed")
         /\ Calls[i].what = "status" =>
              /\ cycle.out.parse_error = NoExc
              /\ cycle.out.failure = NoExc
              /\ last_status = Str(Calls[i].text)
              /\ Logged(cycle.out.log, "INFO", "Status changed")

C8_Witness ==
    /\ pc = "sleep"
    /\ Len(Calls) = 1
    /\ Calls[1].what = "status" /\ ~Calls[1].delivered
    /\ cycle.out.failure = NoExc
    /\ last_status = Str(Calls[1].text)

(* C9: with a required token absent the process logs a critical record    *)
(* for each absent token and exits with a non-zero status before the loop, *)
(* never fetching nor notifying; with every token present it never exits.  *)
C9_ExitOnlyOnMissingTokens ==
    /\ pc \in {"exited", "crashed"} => (pc = "exited" /\ Absent # {})
    /\ Absent # {} => (pc \in {"start", "exited"} /\ ~cycle.ran /\ bot = None)
    /\ pc = "exited" =>
         /\ exit_status # None
         /\ exit_status.code # 0
         /\ \A n \in Absent :
              Logged(log, "CRITICAL",
                     "Environment variable is absent: \"" \o n \o "\"")
    /\ (Absent = {} /\ pc # "start") => (pc \in {"fetch", "sleep"} /\ exit_status = None)

C9_Witness ==
    /\ pc = "exited"
    /\ Absent = {"PRACTICUM_TOKEN", "TELEGRAM_CHAT_ID"}
    /\ exit_status.code = 1
    /\ ~cycle.ran

(* C10: parse_status returns, for a homework with a non-empty name and a   *)
(* status among the verdicts, a non-empty message holding the name and the *)
(* verdict of the status, the same on every call; it fails with the        *)
(* missing-name error for an absent or empty name, and with the            *)
(* unknown-status error for a non-empty name and any other status; the     *)
(* call itself leaves last_status and timestamp alone.                     *)
C10_ParseStatus ==
    \A i \in 1..Len(cycle.out.parsed) :
      LET homework == cycle.out.parsed[i].homework
          result == cycle.out.parsed[i].result
          name == Get(homework, "homework_name")
          status == Get(homework, "status")
          known == status.t = "str" /\ status.v \in {"approved", "reviewing", "rejected"}
      IN  /\ (name.t = "str" /\ name.v # "" /\ known) =>
                /\ result.raised = NoExc
                /\ result.value.t = "str" /\ result.value.v # ""
                /\ Contains(result.value.v, name.v)
                /\ Contains(result.value.v, HOMEWORK_VERDICTS[status.v])
                /\ cycle.repeated => result.value = prev.derived
          /\ (name.t = "None" \/ name.v = "") => result.raised = MissingName
          /\ (name.t = "str" /\ name.v # "" /\ ~known) =>
                /\ result.raised = UnknownStatus(status)
                /\ result.raised # MissingName
          /\ result.raised # NoExc =>
                /\ result.value = None
                /\ last_status = cycle.before_status
                /\ timestamp = cycle.before_timestamp

C10_Witness ==
    /\ Len(cycle.out.parsed) = 1
    /\ cycle.out.parsed[1].homework = Homework(Str("hw1"), Str("rejected"))
    /\ cycle.out.parsed[1].result.value
         = Str("Homework review status changed \"hw1\". Work checked: the reviewer has remarks.")
    /\ cycle.repeated


\* the pass got a parsed body from get_api_answer
Answered ==
    cycle.ran /\ reply.kind = "http" /\ reply.code = HTTP_OK /\ reply.decode = "none"

(* C11: check_response accepts a body exactly when it is a dict holding a  *)
(* homeworks key whose value is a list and a current_date key, and rejects *)
(* every other body with a TypeError or a KeyError; the homeworks of the   *)
(* list play no part, so a body with a malformed homework is accepted.     *)
C11_CheckResponse ==
    Answered =>
      LET body == reply.json
          shaped == /\ body.t = "dict"
                    /\ "homeworks" \in DOMAIN body.v
                    /\ body.v["homeworks"].t = "list"
                    /\ "current_date" \in DOMAIN body.v
      IN  /\ shaped <=> cycle.out.failure = NoExc
          /\ ~shaped => cycle.out.failure.type \in {"TypeError", "KeyError"}
          /\ ~shaped => cycle.out.parsed = <<>>

C11_Witness ==
    /\ Answered
    /\ cycle.out.failure = NoExc
    /\ cycle.out.parse_error = MissingName
    /\ Len(Get(reply.json, "homeworks").v) = 1


\* the names of TokenNames from position i on that env leaves unset, in order
RECURSIVE AbsentFrom(_)
AbsentFrom(i) ==
    IF i > Len(TokenNames) THEN <<>>
    ELSE (IF env[TokenNames[i]] = None THEN <<TokenNames[i]>> ELSE <<>>)
         \o AbsentFrom(i + 1)

(* C12: check_tokens returns exactly the names of the absent configuration *)
(* values in the order PRACTICUM_TOKEN, TELEGRAM_TOKEN, TELEGRAM_CHAT_ID:  *)
(* each absent name once, no present name, the empty list when all three   *)
(* are present; the startup reports that list and runs only when it is     *)
(* empty.                                                                  *)
C12_CheckTokens ==
    LET missing_tokens == check_tokens(env).value
    IN  /\ TokenNames = <<"PRACTICUM_TOKEN", "TELEGRAM_TOKEN", "TELEGRAM_CHAT_ID">>
        /\ missing_tokens = AbsentFrom(1)
        /\ \A i, j \in 1..Len(missing_tokens) :
              missing_tokens[i] = missing_tokens[j] => i = j
        /\ \A n \in DOMAIN env :
              env[n] = None <=> \E i \in 1..Len(missing_tokens) : missing_tokens[i] = n
        /\ (\A n \in DOMAIN env : env[n] # None) <=> missing_tokens = <<>>
        /\ pc = "exited" =>
              SelectSeq(log, LAMBDA r : r.level = "CRITICAL") = CriticalLog(AbsentFrom(1))
        /\ pc \in {"fetch", "sleep", "crashed"} => missing_tokens = <<>>

C12_Witness ==
    /\ pc = "exited"
    /\ check_tokens(env).value = <<"TELEGRAM_TOKEN", "TELEGRAM_CHAT_ID">>


\* what get_api_answer raises when no HTTP exchange completes
TransportOutcome == get_api_answer(cycle.before_timestamp, [kind |-> "neterr"]).raised

\* an exchange completed with a status outside 200..299
NonSuccessStatus == reply.kind = "http" /\ ~(reply.code \in 200..299)

\* an exchange completed with status 200 and a body that is no JSON
MalformedBody == reply.kind = "http" /\ reply.code = HTTP_OK /\ reply.decode # "none"

(* C13: the failures of get_api_answer tell their kind: a completed        *)
(* exchange with a non-2xx status raises an error that carries the status  *)
(* code and differs from the error of a network failure, and a malformed   *)
(* JSON body raises an error that differs from both.                       *)
C13_FailureKindsDistinct ==
    cycle.ran =>
      /\ NonSuccessStatus =>
            /\ cycle.out.failure # NoExc
            /\ cycle.out.failure # TransportOutcome
            /\ Contains(cycle.out.failure.msg, ToString(reply.code))
      /\ MalformedBody =>
            /\ cycle.out.failure # NoExc
            /\ cycle.out.failure # TransportOutcome
            /\ \A code \in {404, 500} :
                  cycle.out.failure
                    # get_api_answer(cycle.before_timestamp, Http(code, None, "none")).raised


(* C14: a pass that fails at the cycle level both sends the diagnostic and *)
(* writes an error record to the log in that pass; read at its weakest,    *)
(* any record of level ERROR or CRITICAL written by the pass counts.       *)
C14_FailureNotifiedAndLogged ==
    CycleFailed =>
      /\ \E i \in 1..Len(Calls) : Calls[i].text = Diagnostic(CycleError)
      /\ \E i \in 1..Len(log) : log[i].level \in {"ERROR", "CRITICAL"}


(* C15: last_status becomes the new status message after every attempt to  *)
(* send it, delivered or not: a pass whose status message A was not        *)
(* delivered leaves last_status = A, and a pass that derives the message   *)
(* last_status already holds sends nothing and keeps it, so the passes     *)
(* that follow an undelivered A and derive A again never send A.           *)
C15_UndeliveredIsNotRetried ==
    /\ \A i \in 1..Len(Calls) :
          Calls[i].what = "status" => last_status = Str(Calls[i].text)
    /\ (cycle.ran /\ Derived # None /\ Derived = cycle.before_status) =>
          Calls = <<>> /\ last_status = Derived
    /\ (prev.undelivered /\ Derived # None /\ prev.sent = <<Derived.v>>) =>
          Calls = <<>> /\ last_status = Derived

C15_Witness ==
    /\ prev.undelivered
    /\ Derived # None
    /\ prev.sent = <<Derived.v>>
    /\ Calls = <<>>
    /\ last_status = Derived


(* C16: a pass calls send_message at most once: it sends one status        *)
(* message (only after the answer was validated), or one diagnostic (only  *)
(* after a cycle-level failure), or nothing, and never a status message    *)
(* and a diagnostic together.                                              *)
C16_AtMostOneSend ==
    cycle.ran =>
      /\ Len(Calls) <= 1
      /\ ~ \E i, j \in 1..Len(Calls) :
              Calls[i].what = "status" /\ Calls[j].what = "diagnostic"
      /\ \A i \in 1..Len(Calls) :
            /\ Calls[i].what \in {"status", "diagnostic"}
            /\ Calls[i].what = "status" =>
                  Validated /\ Derived = Str(Calls[i].text)
            /\ Calls[i].what = "diagnostic" =>
                  CycleFailed /\ Derived = None

C16_Witness ==
    /\ cycle.ran
    /\ prev.ncalls = 1
    /\ prev.derived # None
    /\ Len(Calls) = 1
    /\ Calls[1].what = "diagnostic"
    /\ last_status = prev.derived


\* the messages parse_status returns for the homeworks the API can hold
StatusMessages ==
    {parse_status(h).value :
       h \in {r \in HomeworkRecords \cup SeveralRecords : parse_status(r).raised = NoExc}}

(* C17: last_status is always None (no message yet) or a message returned  *)
(* by parse_status, never a diagnostic; diagnostics are therefore not      *)
(* de-duplicated: a pass that fails with the very error of the pass before *)
(* it makes its own attempt to send the diagnostic, as that pass did.      *)
C17_DiagnosticsNotRemembered ==
    /\ last_status = None \/ last_status \in StatusMessages
    /\ last_status # None => ~Contains(last_status.v, "Program failure: ")
    /\ CycleFailed =>
          /\ last_status = cycle.before_status
          /\ last_status # Str(Diagnostic(CycleError))
    /\ (cycle.repeated /\ CycleFailed) =>
          /\ prev.ran /\ prev.derived = None /\ prev.ncalls = 1
          /\ Len(Calls) = 1
          /\ Calls[1].what = "diagnostic"
          /\ Calls[1].text = Diagnostic(CycleError)

C17_Witness ==
    /\ cycle.repeated
    /\ CycleFailed
    /\ prev.ncalls = 1
    /\ Len(Calls) = 1
    /\ Calls[1].text = Diagnostic(CycleError)
    /\ last_status \in StatusMessages

====
